---- MODULE Spec2Model ----
(***************************************************************************)
(* Bring-up controller of RenderToMySQL: the two installer scripts         *)
(* your_app.py and mysql_setup.py, the filesystem they leave behind        *)
(* between runs, and the MySQL server process they spawn.                  *)
(*                                                                         *)
(* One behaviour is a sequence of runs of ONE script (chosen in Init) on   *)
(* one host.  The controller is sequential; the server process and an      *)
(* orphan server left by an earlier run are scheduled independently.       *)
(***************************************************************************)
EXTENDS Naturals, Integers, Sequences, FiniteSets, TLC

\* ------------------------------------------------------------------ bounds
MaxRuns == 2            \* runs of the script by the operator

\* ------------------------------------------------------- program constants
StartAttempts    == 180 \* your_app.py    start_mysql            for i in range(180)
TestAttempts     == 8   \* your_app.py    test_connection        for attempt in range(8)
ServerAttempts   == 40  \* mysql_setup.py start_mysql_server     for i in range(40)
RestartAttempts  == 30  \* mysql_setup.py restart_mysql_with_auth for i in range(30)

VARIABLES
    script,        \* which script the operator runs: "your_app" | "mysql_setup"
    run,           \* number of the current run, 1..MaxRuns
    \* ---- controller, reset by every run
    pc,            \* position of the controller in main()
    i,             \* loop variable of the polling loop being executed
    probes,        \* functional probe commands run by the current prober call
    sleeps,        \* backoff sleeps taken by test_connection
    exitCode,      \* -1 while running, else the exit status of the process
    out,           \* diagnostics printed so far in this run (tags)
    stages,        \* stages started so far in this run, in order
    failedStages,  \* stages whose underlying operation actually failed
    readiness,     \* ReadinessState of the prober
    okProbes,      \* prober calls in which some probe command exited 0
    handle,        \* start_mysql returned the process handle
    \* ---- filesystem, kept between runs
    archive,       \* your_app.py: the downloaded archive file
    install,       \* the installation directory
    dataDir,       \* entries of the data directory
    cnf,           \* content of my.cnf
    bootCalls,     \* invocations of mysqld --initialize-insecure so far
    initOK,        \* some invocation of --initialize-insecure exited 0
    \* ---- processes
    srv,           \* the server process spawned by this run
    sock,          \* the socket file exists
    sockEver,      \* the socket file has existed since the last spawn
    stale,         \* a server spawned by an earlier run is still alive
    \* ---- archive
    tarMembers,    \* your_app.py: member names of the downloaded archive file
    outside,       \* an extraction has written a file outside the install root
    \* ---- accounts
    db_password,   \* the application password this run works with
    credFile,      \* mysql_setup.py: the password stored in .mysql_credentials
    catalog,       \* databases, accounts and grants held by the data directory
    applied,       \* Applier calls that executed all of their statements
    \* ---- resolution
    mysql_home,    \* your_app.py: the directory extract_mysql returned to this run
    \* ---- launch
    srvCnf,        \* the my.cnf content the server of this run was started from
    staleCnfs,     \* the my.cnf contents the live orphans were started from
    srvOut,        \* where stdout and stderr of the server of this run go
    logRuns,       \* runs whose server output mysql_stdout.log / mysql_stderr.log hold
    \* ---- shutdown
    signals        \* your_app.py: signals this run has sent to its server

idVars  == <<script, run>>
runVars == <<pc, i, probes, sleeps, exitCode, out, stages, failedStages,
             readiness, okProbes, handle>>
fsVars  == <<archive, install, dataDir, cnf, bootCalls, initOK>>
srvVars == <<srv, sock, sockEver, stale>>
dbVars  == <<db_password, credFile, catalog, applied>>
tarVars == <<tarMembers, outside>>
sigVars == <<signals>>
launchVars == <<srvCnf, staleCnfs, srvOut, logRuns>>
homeVars == <<mysql_home>>
vars    == <<idVars, runVars, fsVars, srvVars, dbVars, tarVars, sigVars, launchVars,
             homeVars>>

\* ----------------------------------------------------------------- helpers
Range(s) == {s[k] : k \in 1..Len(s)}

IsPrefix(s, t) == Len(s) <= Len(t) /\ \A k \in 1..Len(s) : s[k] = t[k]

Min(a, b) == IF a <= b THEN a ELSE b

None == "None"

Alive(p) == p \in {"starting", "socket", "ready"}

\* content of an initialized data directory: the system schema directory
\* "mysql" and the tablespace files
FullData == {"mysql", "ib"}

\* what an --initialize-insecure that failed or was killed may leave behind
PartialData(d) == IF d = {} THEN {{}, {"ib"}, FullData} ELSE {d}

\* outcomes of mysqld --initialize-insecure: it exits 0 only with the
\* binaries in place and on an empty data directory
BootstrapOutcomes(d, inst, withTimeout) ==
    (IF d = {} /\ inst = "installed" THEN {"ok"} ELSE {})
        \cup {"fail"} \cup (IF withTimeout THEN {"timeout"} ELSE {})

\* a client command can exit 0 only when a live server listens on the socket
Serving == sock /\ (srv = "ready" \/ stale) /\ install = "installed"

ClientOutcomes == (IF Serving THEN {"ok"} ELSE {}) \cup {"fail", "timeout"}

ReturnCode(res) == IF res = "ok" THEN 0 ELSE 1

\* stdout of "mysql -e 'SELECT 1' 2>/dev/null"
ProbeStdout(res) == IF res = "ok" THEN "1" ELSE ""

\* mysql_setup.py run_command with capture=True: None only when
\* subprocess.run raised CalledProcessError, which needs check=True
run_command(check, rc, stdout) ==
    IF check /\ rc # 0 THEN None ELSE stdout

\* Python truth value of a run_command result
Truthy(result) == result # None /\ result # ""

\* ------------------------------------------------------------------- paths
\* A path is a sequence of components and a component a sequence of pieces
\* of text, so that one name can be the beginning of another
\* ("mysql" / "mysql_evil").
INSTALL_DIR == << <<"home">>, <<"mysql">> >>

DotDot == <<"..">>

MYSQL_VERSION == "8.0.35"

\* members an archive can hold: the name, and the modification time that
\* the extraction leaves on the member's top-level directory
Payload     == [abs |-> FALSE, mtime |-> 1,
                parts |-> << <<"mysql-", MYSQL_VERSION, "-linux-glibc2.28-x86_64">>,
                             <<"bin">> >>]
Docs        == [abs |-> FALSE, mtime |-> 2,
                parts |-> << <<"mysql-", MYSQL_VERSION, "-docs">>, <<"f">> >>]
Test        == [abs |-> FALSE, mtime |-> 1,
                parts |-> << <<"mysql-", MYSQL_VERSION, "-test">>, <<"f">> >>]
Share       == [abs |-> FALSE, mtime |-> 2, parts |-> << <<"share">>, <<"f">> >>]
Man         == [abs |-> FALSE, mtime |-> 3, parts |-> << <<"man">>, <<"f">> >>]
Readme      == [abs |-> FALSE, mtime |-> 1, parts |-> << <<"README">> >>]
ParentEtc   == [abs |-> FALSE, mtime |-> 1, parts |-> << DotDot, DotDot, <<"etc">> >>]
Sibling     == [abs |-> FALSE, mtime |-> 1,
                parts |-> << DotDot, <<"mysql", "_evil">>, <<"f">> >>]
AbsoluteEtc == [abs |-> TRUE,  mtime |-> 1, parts |-> << <<"etc">>, <<"f">> >>]

\* what the download can deliver
Archives ==
    { <<Payload>>, <<Payload, ParentEtc>>, <<Payload, AbsoluteEtc>>,
      <<Payload, Sibling>>,
      <<Payload, Share>>, <<Man, Share>>, <<Docs, Test>>, <<Readme>> }

\* os.path.join(directory, name): an absolute name replaces the directory
PathJoin(directory, name) ==
    IF name.abs THEN name.parts ELSE directory \o name.parts

\* os.path.abspath of an absolute path: ".." removes the component before
\* it, and at the root it is dropped
RECURSIVE NormPath(_, _)
NormPath(done, rest) ==
    IF rest = <<>> THEN done
    ELSE IF Head(rest) = DotDot
         THEN NormPath(IF done = <<>> THEN <<>> ELSE SubSeq(done, 1, Len(done) - 1),
                       Tail(rest))
         ELSE NormPath(Append(done, Head(rest)), Tail(rest))

abspath(path) == NormPath(<<>>, path)

\* the text of a path: "/" before each component, the pieces one after the
\* other
RECURSIVE PathText(_)
PathText(path) ==
    IF path = <<>> THEN <<>> ELSE <<"/">> \o Head(path) \o PathText(Tail(path))

\* extract_mysql: abs_target.startswith(abs_directory), on the text
is_within_directory(directory, target) ==
    IsPrefix(PathText(abspath(directory)), PathText(abspath(target)))

\* containment by path components after resolving ".."
Contained(directory, target) == IsPrefix(abspath(directory), abspath(target))

\* where a member is written
Target(m) == abspath(PathJoin(INSTALL_DIR, m))

\* [p for p in INSTALL_DIR.iterdir() if p.is_dir()] once every member has
\* been written: the top-level directories of the members
iterdir(members) ==
    {[name |-> members[k].parts[1], mtime |-> members[k].mtime] :
        k \in {j \in 1..Len(members) : /\ ~members[j].abs
                                       /\ Len(members[j].parts) > 1
                                       /\ members[j].parts[1] # DotDot}}

\* p.name.startswith(prefix)
startswith(name, prefix) == IsPrefix(prefix, name)

\* extract_mysql: the directories whose name starts with "mysql-<version>"
top_dirs(dirs) == {p \in dirs : startswith(p.name, <<"mysql-", MYSQL_VERSION>>)}

\* a fallback that takes the directory modified longest ago
candidates_Oldest(dirs) == {p \in dirs : \A q \in dirs : p.mtime <= q.mtime}

\* extract_mysql: what can stand first in the directories sorted by st_mtime,
\* most recent first
candidates(dirs) == {p \in dirs : \A q \in dirs : q.mtime <= p.mtime}

\* no directory
NoDir == <<>>

\* extract_mysql: the values extract_dir can take.  iterdir() lists in no
\* particular order, so top_dirs[0] is any of the matching directories.
extract_dir(dirs) ==
    IF top_dirs(dirs) # {} THEN {p.name : p \in top_dirs(dirs)}
    ELSE IF candidates(dirs) # {} THEN {p.name : p \in candidates(dirs)}
    ELSE {NoDir}

\* mysql_home / "bin" / "mysqld" exists
HasServer(members, home) ==
    \E k \in 1..Len(members) :
        /\ ~members[k].abs /\ Len(members[k].parts) > 1
        /\ members[k].parts[1] = home /\ members[k].parts[2] = <<"bin">>

\* ------------------------------------------------------------------ my.cnf
\* The content of the file is the sequence of its lines, a line the pieces
\* of its text.  The lines that hold no parameter and are the same literal
\* text in every render (the tuning settings of your_app.py) are left out.
DATA_DIR   == << <<"home">>, <<"mysql_data">> >>
TMP_DIR    == << <<"home">>, <<"mysql_tmp">> >>
MYSQL_PORT == 3306

\* no file
NoFile == <<>>

\* the decimal text of a number, as an f-string writes it
Digits == <<"0", "1", "2", "3", "4", "5", "6", "7", "8", "9">>
RECURSIVE format(_)
format(n) ==
    IF n < 10 THEN <<Digits[n + 1]>>
    ELSE format(n \div 10) \o <<Digits[(n % 10) + 1]>>

\* create_config_file: config_content, the f-string
config_content(home) ==
    << <<"[mysqld]">>,
       <<"basedir=">> \o PathText(INSTALL_DIR \o <<home>>),
       <<"datadir=">> \o PathText(DATA_DIR),
       <<"socket=">> \o PathText(TMP_DIR) \o <<"/mysql.sock">>,
       <<"pid-file=">> \o PathText(TMP_DIR) \o <<"/mysql.pid">>,
       <<"port=">> \o format(MYSQL_PORT),
       <<"bind-address=127.0.0.1">>,
       <<"tmpdir=">> \o PathText(TMP_DIR),
       <<"log_error=">> \o PathText(TMP_DIR) \o <<"/mysql_error.log">>,
       <<"[client]">>,
       <<"socket=">> \o PathText(TMP_DIR) \o <<"/mysql.sock">>,
       <<"port=">> \o format(MYSQL_PORT),
       <<"[mysql]">>,
       <<"socket=">> \o PathText(TMP_DIR) \o <<"/mysql.sock">> >>

\* a render that also writes when it was made
create_config_file_Stamped(home) ==
    Append(config_content(home), <<"# generated in run ", Digits[run + 1]>>)

\* create_config_file: what f.write(config_content) leaves in the file
create_config_file(home) == config_content(home)

\* mysql_setup.py: mysql_dir, data_dir and the port of both renders
mysql_dir == << <<"home">>, <<"mysql">> >>
data_dir  == mysql_dir \o << <<"data">> >>
port      == 3306

\* mysql_setup.py: the [mysqld] section both renders share
my_cnf_mysqld ==
    << <<"">>,
       <<"[mysqld]">>,
       <<"datadir=">> \o PathText(data_dir),
       <<"socket=">> \o PathText(mysql_dir) \o <<"/mysql.sock">>,
       <<"pid-file=">> \o PathText(mysql_dir) \o <<"/mysql.pid">>,
       <<"port=">> \o format(port),
       <<"bind-address=0.0.0.0">>,
       <<"log-error=">> \o PathText(mysql_dir) \o <<"/mysql.log">> >>

\* start_mysql_server: my_cnf
start_mysql_server_my_cnf == my_cnf_mysqld \o << <<"skip-grant-tables">> >>

\* restart_mysql_with_auth: my_cnf
restart_mysql_with_auth_my_cnf ==
    my_cnf_mysqld \o
    << <<"">>, <<"[client]">>, <<"socket=">> \o PathText(mysql_dir) \o <<"/mysql.sock">> >>

\* the file switches authentication off
SkipGrantTables(content) == <<"skip-grant-tables">> \in Range(content)

\* some member of the archive resolves outside the install root
HasUnsafe(members) ==
    \E k \in 1..Len(members) : ~Contained(INSTALL_DIR, Target(members[k]))

\* position of the first member that resolves outside, 0 if none
FirstUnsafe(members) ==
    IF HasUnsafe(members)
    THEN CHOOSE k \in 1..Len(members) :
            /\ ~Contained(INSTALL_DIR, Target(members[k]))
            /\ \A j \in 1..(k - 1) : Contained(INSTALL_DIR, Target(members[j]))
    ELSE 0

\* ---------------------------------------------------------------- accounts
\* values of os.getenv('DB_PASSWORD', generate_password()) in a run of
\* mysql_setup.py: the same value in two runs when the environment supplies
\* it, otherwise whatever the generator returns
Passwords == {"pw1", "pw2"}

\* your_app.py: the module constant
DB_PASSWORD == "SecurePass123!"

DB_NAME == "myapp_db"

Accounts == {"root@localhost", "root@%", "appuser@localhost", "appuser@%"}

AppAccounts == {"appuser@localhost", "appuser@%"}

\* what mysqld --initialize-insecure creates: root@localhost with an empty
\* password and every privilege, no application database
FreshCatalog ==
    [dbs    |-> {},
     users  |-> [a \in Accounts |-> IF a = "root@localhost" THEN "" ELSE "absent"],
     grants |-> {<<"root@localhost", "*.*">>}]

\* the statements of the bootstrap scripts
CreateDatabase(guarded) ==
    [op |-> "CREATE DATABASE", user |-> "", pw |-> "", on |-> DB_NAME, ifNotExists |-> guarded]

CreateUser(a, p, guarded) ==
    [op |-> "CREATE USER", user |-> a, pw |-> p, on |-> "", ifNotExists |-> guarded]

AlterUser(a, p) ==
    [op |-> "ALTER USER", user |-> a, pw |-> p, on |-> "", ifNotExists |-> FALSE]

Grant(a, scope) ==
    [op |-> "GRANT", user |-> a, pw |-> "", on |-> scope, ifNotExists |-> FALSE]

FlushPrivileges ==
    [op |-> "FLUSH PRIVILEGES", user |-> "", pw |-> "", on |-> "", ifNotExists |-> FALSE]

Query ==
    [op |-> "QUERY", user |-> "", pw |-> "", on |-> "", ifNotExists |-> FALSE]

\* your_app.py setup_database
Y_sql_commands_Unguarded ==
    << CreateDatabase(TRUE),
       CreateUser("appuser@%", "db_password", FALSE),
       Grant("appuser@%", DB_NAME),
       FlushPrivileges, Query, Query >>

Y_sql_commands ==
    << CreateDatabase(TRUE),
       CreateUser("appuser@%", "db_password", TRUE),
       Grant("appuser@%", DB_NAME),
       FlushPrivileges, Query, Query >>

\* mysql_setup.py setup_database_and_user
M_sql_commands_GrantFirst ==
    << FlushPrivileges,
       AlterUser("root@localhost", "root_pwd"),
       CreateUser("root@%", "root_pwd", TRUE),
       Grant("root@%", "*.*"),
       Grant("appuser@%", DB_NAME),
       CreateDatabase(TRUE),
       CreateUser("appuser@localhost", "db_password", TRUE),
       CreateUser("appuser@%", "db_password", TRUE),
       Grant("appuser@localhost", DB_NAME),
       Grant("appuser@%", "*.*"),
       FlushPrivileges >>

M_sql_commands ==
    << FlushPrivileges,
       AlterUser("root@localhost", "root_pwd"),
       CreateUser("root@%", "root_pwd", TRUE),
       Grant("root@%", "*.*"),
       CreateDatabase(TRUE),
       CreateUser("appuser@localhost", "db_password", TRUE),
       CreateUser("appuser@%", "db_password", TRUE),
       Grant("appuser@localhost", DB_NAME),
       Grant("appuser@%", DB_NAME),
       Grant("appuser@%", "*.*"),
       FlushPrivileges >>

\* app.py sql
A_sql ==
    << CreateDatabase(TRUE),
       CreateUser("appuser@%", "db_password", TRUE),
       Grant("appuser@%", DB_NAME),
       FlushPrivileges >>

\* the password a statement carries once the f-string is formatted; the
\* value of the root password is not tracked
Formatted(p, dbpw) == IF p = "db_password" THEN dbpw ELSE p

\* the server rejects a statement: an unguarded CREATE of something that
\* exists, ALTER USER or GRANT for an account that does not exist
Rejected(st, cat) ==
    CASE st.op = "CREATE DATABASE" -> ~st.ifNotExists /\ st.on \in cat.dbs
      [] st.op = "CREATE USER"     -> ~st.ifNotExists /\ cat.users[st.user] # "absent"
      [] st.op = "ALTER USER"      -> cat.users[st.user] = "absent"
      [] st.op = "GRANT"           -> cat.users[st.user] = "absent"
      [] OTHER                     -> FALSE

\* the effect of a statement the server accepts
Execute(st, cat, dbpw) ==
    CASE st.op = "CREATE DATABASE" -> [cat EXCEPT !.dbs = @ \cup {st.on}]
      [] st.op = "CREATE USER"     ->
            IF cat.users[st.user] # "absent" THEN cat
            ELSE [cat EXCEPT !.users[st.user] = Formatted(st.pw, dbpw)]
      [] st.op = "ALTER USER"      ->
            [cat EXCEPT !.users[st.user] = Formatted(st.pw, dbpw)]
      [] st.op = "GRANT"           -> [cat EXCEPT !.grants = @ \cup {<<st.user, st.on>>}]
      [] OTHER                     -> cat

\* the mysql client without --force: statements from position k on are sent
\* one by one and the first one rejected ends the client with a non-zero
\* exit status
RECURSIVE RunScript(_, _, _, _)
RunScript(sql, k, cat, dbpw) ==
    IF k > Len(sql) THEN [catalog |-> cat, rc |-> 0]
    ELSE IF Rejected(sql[k], cat) THEN [catalog |-> cat, rc |-> 1]
    ELSE RunScript(sql, k + 1, Execute(sql[k], cat, dbpw), dbpw)

\* ------------------------------------------------------------------- Init
Init ==
    /\ script \in {"your_app", "mysql_setup"}
    /\ run = 1
    /\ pc = IF script = "your_app" THEN "download" ELSE "m_download"
    /\ i = 0 /\ probes = 0 /\ sleeps = 0
    /\ exitCode = -1
    /\ out = {}
    /\ stages = <<>>
    /\ failedStages = {}
    /\ readiness = "IDLE"
    /\ okProbes = {}
    /\ handle = FALSE
    /\ archive = "absent"
    /\ install = IF script = "your_app" THEN "empty" ELSE "absent"
    /\ dataDir = {}
    /\ cnf = NoFile
    /\ bootCalls = 0
    /\ initOK = FALSE
    /\ srv = "none"
    /\ sock = FALSE
    /\ sockEver = FALSE
    /\ stale = FALSE
    /\ db_password \in (IF script = "your_app" THEN {DB_PASSWORD} ELSE Passwords)
    /\ credFile = "none"
    /\ catalog = FreshCatalog
    /\ applied = 0
    /\ tarMembers = <<>>
    /\ outside = FALSE
    /\ signals = <<>>
    /\ srvCnf = NoFile /\ staleCnfs = {} /\ srvOut = "none" /\ logRuns = {}
    /\ mysql_home = NoDir

\* sys.exit(code) / falling off the end of the script
Exit(code) == pc' = "done" /\ exitCode' = code

\* ------------------------------------------------- the server (environment)
\* the server creates its socket file: it needs the system schema, and a
\* second server on a data directory that an orphan still holds cannot get
\* that far
SrvCreateSocket ==
    /\ srv = "starting" /\ ~stale /\ "mysql" \in dataDir
    /\ srv' = "socket" /\ sock' = TRUE /\ sockEver' = TRUE
    /\ UNCHANGED <<stale, idVars, runVars, fsVars>>
    /\ UNCHANGED <<dbVars, tarVars>>
    /\ UNCHANGED sigVars
    /\ UNCHANGED launchVars
    /\ UNCHANGED homeVars

\* the server starts answering queries
SrvAccept ==
    /\ srv = "socket"
    /\ srv' = "ready"
    /\ UNCHANGED <<sock, sockEver, stale, idVars, runVars, fsVars>>
    /\ UNCHANGED <<dbVars, tarVars>>
    /\ UNCHANGED sigVars
    /\ UNCHANGED launchVars
    /\ UNCHANGED homeVars

\* the server process exits on its own; a clean exit removes its socket file
SrvExit ==
    /\ Alive(srv)
    /\ srv' = "exited"
    /\ sock' \in (IF srv = "starting" THEN {sock} ELSE {sock, FALSE})
    /\ UNCHANGED <<sockEver, stale, idVars, runVars, fsVars>>
    /\ UNCHANGED <<dbVars, tarVars>>
    /\ UNCHANGED sigVars
    /\ UNCHANGED launchVars
    /\ UNCHANGED homeVars

\* the orphan of an earlier run creates its socket file or exits
StaleStep ==
    /\ stale
    /\ \/ ~sock /\ sock' = TRUE /\ sockEver' = TRUE /\ stale' = stale
          /\ UNCHANGED staleCnfs
       \/ stale' = FALSE /\ sock' \in {sock, FALSE} /\ sockEver' = sockEver
          /\ staleCnfs' = {}
    /\ UNCHANGED <<srvCnf, srvOut, logRuns>>
    /\ UNCHANGED <<srv, idVars, runVars, fsVars>>
    /\ UNCHANGED <<dbVars, tarVars>>
    /\ UNCHANGED sigVars
    /\ UNCHANGED homeVars

\* ====================================================== your_app.py, main()
\* the position main() continues at after the function at position p returned
Y_main_next_Swapped(p) ==
    CASE p = "download" -> "extract"
      [] p = "extract"  -> "libaio"
      [] p = "libaio"   -> "config"
      [] p = "config"   -> "init"
      [] p = "init"     -> "launch"
      [] p = "test"     -> "setup"
      [] p = "setup"    -> "summary"
      [] p = "summary"  -> "keepalive"
      [] OTHER          -> "done"

Y_main_next(p) ==
    CASE p = "download" -> "extract"
      [] p = "extract"  -> "libaio"
      [] p = "libaio"   -> "init"
      [] p = "init"     -> "config"
      [] p = "config"   -> "launch"
      [] p = "test"     -> "setup"
      [] p = "setup"    -> "summary"
      [] p = "summary"  -> "keepalive"
      [] OTHER          -> "done"

\* download_mysql: the archive file is the cache key; urlretrieve writes to
\* the final path, so a failed transfer may leave a partial file
Y_download_mysql ==
    /\ script = "your_app" /\ pc = "download"
    /\ stages' = Append(stages, "Provisioner")
    /\ IF archive # "absent"
       THEN /\ pc' = Y_main_next("download")
            /\ out' = out \cup {"already_present"}
            /\ UNCHANGED <<archive, exitCode, failedStages, tarMembers>>
       ELSE /\ out' = out \cup {"downloading"}
            /\ \E res \in {"ok", "error"} :
                 IF res = "ok"
                 THEN /\ archive' = "complete"
                      /\ tarMembers' \in Archives
                      /\ pc' = Y_main_next("download")
                      /\ UNCHANGED <<exitCode, failedStages>>
                 ELSE /\ archive' \in {"absent", "partial"}
                      /\ failedStages' = failedStages \cup {"Provisioner"}
                      /\ Exit(1)
                      /\ UNCHANGED tarMembers
    /\ UNCHANGED <<i, probes, sleeps, readiness, okProbes, handle>>
    /\ UNCHANGED <<install, dataDir, cnf, bootCalls, initOK>>
    /\ UNCHANGED <<idVars, srvVars>>
    /\ UNCHANGED <<dbVars, outside>>
    /\ UNCHANGED sigVars
    /\ UNCHANGED launchVars
    /\ UNCHANGED homeVars

\* extract_mysql: every member name is checked with is_within_directory
\* before tar.extractall; an exception (truncated archive, "Unsafe archive
\* member detected", an error raised by extractall) becomes exit status 1 in
\* main
Unchecked(members) ==
    \E k \in 1..Len(members) :
        ~is_within_directory(INSTALL_DIR, PathJoin(INSTALL_DIR, members[k]))

\* tar.extractall(path=INSTALL_DIR).  The extraction filter is the one of the
\* interpreter: "fully_trusted" writes every member where its name leads,
\* "data" raises at the first member that leads outside the destination,
\* after the members before it have been written and with the ones after it
\* missing.
ExtractionFilters == {"fully_trusted", "data"}

Y_extract_mysql ==
    /\ script = "your_app" /\ pc = "extract"
    /\ IF archive # "complete"
       THEN /\ failedStages' = failedStages \cup {"Provisioner"}
            /\ out' = out \cup {"error"}
            /\ Exit(1)
            /\ UNCHANGED <<install, outside, mysql_home>>
       ELSE IF Unchecked(tarMembers)
       THEN /\ failedStages' = failedStages \cup {"Provisioner"}
            /\ out' = out \cup {"error", "unsafe_member"}
            /\ Exit(1)
            /\ UNCHANGED <<install, outside, mysql_home>>
       ELSE \E filter \in ExtractionFilters :
              IF filter = "data" /\ HasUnsafe(tarMembers)
              THEN /\ install' = IF FirstUnsafe(tarMembers) = 1 \/ install = "installed"
                                 THEN install ELSE "partial"
                   /\ failedStages' = failedStages \cup {"Provisioner"}
                   /\ out' = out \cup {"error"}
                               \cup (IF FirstUnsafe(tarMembers) = 1 THEN {}
                                     ELSE {"extracted"})
                   /\ Exit(1)
                   /\ UNCHANGED <<outside, mysql_home>>
              ELSE /\ outside' = (outside \/ HasUnsafe(tarMembers))
                   /\ \E d \in extract_dir(iterdir(tarMembers)) :
                        /\ mysql_home' = d
                        /\ install' = IF HasServer(tarMembers, d)
                                       THEN "installed" ELSE "partial"
                        /\ IF d = NoDir
                           THEN /\ out' = out \cup {"extracted", "no_directory"}
                                /\ failedStages' = failedStages \cup {"Provisioner"}
                                /\ Exit(1)
                           ELSE /\ out' = out \cup {"extracted"}
                                /\ pc' = Y_main_next("extract")
                                /\ UNCHANGED <<exitCode, failedStages>>
    /\ UNCHANGED <<i, probes, sleeps, stages, readiness, okProbes, handle>>
    /\ UNCHANGED <<archive, dataDir, cnf, bootCalls, initOK>>
    /\ UNCHANGED <<idVars, srvVars>>
    /\ UNCHANGED <<dbVars, tarMembers>>
    /\ UNCHANGED sigVars
    /\ UNCHANGED launchVars

\* install_libaio: best effort, its result only produces a warning
Y_install_libaio ==
    /\ script = "your_app" /\ pc = "libaio"
    /\ pc' = Y_main_next("libaio")
    /\ UNCHANGED <<i, probes, sleeps, exitCode, out, stages, failedStages,
                   readiness, okProbes, handle>>
    /\ UNCHANGED <<idVars, fsVars, srvVars>>
    /\ UNCHANGED <<dbVars, tarVars>>
    /\ UNCHANGED sigVars
    /\ UNCHANGED launchVars
    /\ UNCHANGED homeVars

\* initialize_database: the marker is the subdirectory DATA_DIR/mysql
Y_AlreadyInitialized_Never(d) == FALSE

Y_AlreadyInitialized(d) == "mysql" \in d

Y_initialize_database ==
    /\ script = "your_app" /\ pc = "init"
    /\ stages' = Append(stages, "Initializer")
    /\ IF Y_AlreadyInitialized(dataDir)
       THEN /\ out' = out \cup {"already_initialized"}
            /\ pc' = Y_main_next("init")
            /\ UNCHANGED <<dataDir, bootCalls, initOK, exitCode, failedStages>>
       ELSE /\ bootCalls' = bootCalls + 1
            /\ \E res \in BootstrapOutcomes(dataDir, install, TRUE) :
                 IF res = "ok"
                 THEN /\ dataDir' = FullData
                      /\ initOK' = TRUE
                      /\ out' = out \cup {"initialized"}
                      /\ pc' = Y_main_next("init")
                      /\ UNCHANGED <<exitCode, failedStages>>
                 ELSE /\ dataDir' \in PartialData(dataDir)
                      /\ failedStages' = failedStages \cup {"Initializer"}
                      /\ Exit(1)
                      /\ UNCHANGED <<initOK, out>>
    /\ UNCHANGED <<i, probes, sleeps, readiness, okProbes, handle>>
    /\ UNCHANGED <<archive, install, cnf>>
    /\ UNCHANGED <<idVars, srvVars>>
    /\ UNCHANGED <<dbVars, tarVars>>
    /\ UNCHANGED sigVars
    /\ UNCHANGED launchVars
    /\ UNCHANGED homeVars

\* create_config_file: open(config_path, "w") may raise OSError, which main
\* turns into exit status 1
Y_create_config_file ==
    /\ script = "your_app" /\ pc = "config"
    /\ stages' = Append(stages, "Configurator")
    /\ \E written \in BOOLEAN :
         IF written
         THEN /\ cnf' = create_config_file(mysql_home)
              /\ pc' = Y_main_next("config")
              /\ UNCHANGED <<exitCode, failedStages, out>>
         ELSE /\ failedStages' = failedStages \cup {"Configurator"}
              /\ out' = out \cup {"error"}
              /\ Exit(1)
              /\ UNCHANGED cnf
    /\ UNCHANGED <<i, probes, sleeps, readiness, okProbes, handle>>
    /\ UNCHANGED <<archive, install, dataDir, bootCalls, initOK>>
    /\ UNCHANGED <<idVars, srvVars>>
    /\ UNCHANGED <<dbVars, tarVars>>
    /\ UNCHANGED sigVars
    /\ UNCHANGED launchVars
    /\ UNCHANGED homeVars

\* start_mysql up to the polling loop: Popen may raise OSError
Y_start_mysql ==
    /\ script = "your_app" /\ pc = "launch"
    /\ \E spawned \in (IF install = "installed" THEN BOOLEAN ELSE {FALSE}) :
         IF spawned
         THEN /\ stages' = stages \o <<"Launcher", "Prober">>
              /\ srv' = "starting"
              /\ srvCnf' = cnf
              /\ srvOut' = "append"
              /\ logRuns' = logRuns \cup {run}
              /\ sockEver' = sock
              /\ readiness' = "STARTING"
              /\ i' = 0
              /\ pc' = "wait_alive"
              /\ UNCHANGED <<exitCode, failedStages, out>>
         ELSE /\ stages' = Append(stages, "Launcher")
              /\ failedStages' = failedStages \cup {"Launcher"}
              /\ out' = out \cup {"error"}
              /\ Exit(1)
              /\ UNCHANGED <<srv, sockEver, readiness, i>>
              /\ UNCHANGED <<srvCnf, srvOut, logRuns>>
    /\ UNCHANGED <<probes, sleeps, okProbes, handle>>
    /\ UNCHANGED <<sock, stale, staleCnfs>>
    /\ UNCHANGED <<idVars, fsVars>>
    /\ UNCHANGED <<dbVars, tarVars>>
    /\ UNCHANGED sigVars
    /\ UNCHANGED homeVars

\* a liveness check that answers from the status seen when the process was
\* spawned instead of polling it
check_mysql_process_alive_Cached(p) == TRUE

\* check_mysql_process_alive: polls the process at the moment of the call
check_mysql_process_alive(p) == p # "exited"

\* start_mysql, "for i in range(180)": the liveness check of one iteration,
\* and the timeout once the range is exhausted
Y_wait_check_alive ==
    /\ script = "your_app" /\ pc = "wait_alive"
    /\ IF i >= StartAttempts
       THEN /\ out' = out \cup {"timeout"}
                        \cup (IF check_mysql_process_alive(srv) THEN {} ELSE {"died"})
            /\ readiness' = "TIMED_OUT"
            /\ failedStages' = failedStages \cup {"Prober"}
            /\ Exit(1)
       ELSE IF ~check_mysql_process_alive(srv)
       THEN /\ out' = out \cup {"died"}
            /\ readiness' = "FAILED"
            /\ failedStages' = failedStages \cup {"Prober"}
            /\ Exit(1)
       ELSE /\ pc' = "wait_sock"
            /\ UNCHANGED <<out, readiness, failedStages, exitCode>>
    /\ UNCHANGED <<i, probes, sleeps, stages, okProbes, handle>>
    /\ UNCHANGED <<idVars, fsVars, srvVars>>
    /\ UNCHANGED <<dbVars, tarVars>>
    /\ UNCHANGED sigVars
    /\ UNCHANGED launchVars
    /\ UNCHANGED homeVars

\* the socket check of the iteration, then time.sleep(1)
Y_wait_check_socket ==
    /\ script = "your_app" /\ pc = "wait_sock"
    /\ IF sock
       THEN /\ out' = out \cup {"socket_seen"}
            /\ readiness' = "SOCKET_READY"
            /\ pc' = "settle"
            /\ UNCHANGED i
       ELSE /\ i' = i + 1
            /\ pc' = "wait_alive"
            /\ UNCHANGED <<out, readiness>>
    /\ UNCHANGED <<probes, sleeps, exitCode, stages, failedStages, okProbes, handle>>
    /\ UNCHANGED <<idVars, fsVars, srvVars>>
    /\ UNCHANGED <<dbVars, tarVars>>
    /\ UNCHANGED sigVars
    /\ UNCHANGED launchVars
    /\ UNCHANGED homeVars

\* time.sleep(3), the second liveness check, return process
Y_settle_Retry ==
    /\ script = "your_app" /\ pc = "settle"
    /\ IF ~check_mysql_process_alive(srv)
       THEN /\ readiness' = "STARTING"
            /\ pc' = "wait_alive"
            /\ UNCHANGED <<out, failedStages, exitCode, handle, i, probes, sleeps>>
       ELSE /\ out' = out \cup {"ready"}
            /\ handle' = TRUE
            /\ i' = 0 /\ probes' = 0 /\ sleeps' = 0
            /\ pc' = "test"
            /\ UNCHANGED <<readiness, failedStages, exitCode>>
    /\ UNCHANGED <<stages, okProbes>>
    /\ UNCHANGED <<idVars, fsVars, srvVars>>
    /\ UNCHANGED <<dbVars, tarVars>>
    /\ UNCHANGED sigVars
    /\ UNCHANGED launchVars
    /\ UNCHANGED homeVars

Y_settle ==
    /\ script = "your_app" /\ pc = "settle"
    /\ IF ~check_mysql_process_alive(srv)
       THEN /\ out' = out \cup {"died"}
            /\ readiness' = "FAILED"
            /\ failedStages' = failedStages \cup {"Prober"}
            /\ Exit(1)
            /\ UNCHANGED <<handle, i, probes, sleeps>>
       ELSE /\ out' = out \cup {"ready"}
            /\ handle' = TRUE
            /\ i' = 0 /\ probes' = 0 /\ sleeps' = 0
            /\ pc' = "test"
            /\ UNCHANGED <<readiness, failedStages, exitCode>>
    /\ UNCHANGED <<stages, okProbes>>
    /\ UNCHANGED <<idVars, fsVars, srvVars>>
    /\ UNCHANGED <<dbVars, tarVars>>
    /\ UNCHANGED sigVars
    /\ UNCHANGED launchVars
    /\ UNCHANGED homeVars

\* test_connection: "if attempt < 7: time.sleep(3)"
SleepAfter_Always(attempt) == TRUE

SleepAfter(attempt) == attempt < 7

\* test_connection as a loop without an attempt bound (while True)
Y_test_connection_Unbounded ==
    /\ script = "your_app" /\ pc = "test"
    /\ IF FALSE
       THEN /\ out' = out \cup {"conn_failed"}
            /\ readiness' = "FAILED"
            /\ failedStages' = failedStages \cup {"Prober"}
            /\ Exit(1)
            /\ UNCHANGED <<i, probes, sleeps, okProbes>>
       ELSE /\ probes' = probes + 1
            /\ \E res \in ClientOutcomes \cup {"error"} :
                 IF ReturnCode(res) = 0
                 THEN /\ okProbes' = okProbes \cup {"test"}
                      /\ out' = out \cup {"conn_ok"}
                      /\ readiness' = "QUERY_READY"
                      /\ pc' = Y_main_next("test")
                      /\ UNCHANGED <<i, sleeps>>
                 ELSE /\ sleeps' = IF SleepAfter(i) THEN sleeps + 1 ELSE sleeps
                      /\ i' = i + 1
                      /\ UNCHANGED <<okProbes, out, readiness, pc>>
            /\ UNCHANGED <<failedStages, exitCode>>
    /\ UNCHANGED <<stages, handle>>
    /\ UNCHANGED <<idVars, fsVars, srvVars>>
    /\ UNCHANGED <<dbVars, tarVars>>
    /\ UNCHANGED sigVars
    /\ UNCHANGED launchVars
    /\ UNCHANGED homeVars

\* test_connection, "for attempt in range(8)": one probe per step; when the
\* range is exhausted it returns False and main exits with status 1
Y_test_connection ==
    /\ script = "your_app" /\ pc = "test"
    /\ IF i >= TestAttempts
       THEN /\ out' = out \cup {"conn_failed"}
            /\ readiness' = "FAILED"
            /\ failedStages' = failedStages \cup {"Prober"}
            /\ Exit(1)
            /\ UNCHANGED <<i, probes, sleeps, okProbes>>
       ELSE /\ probes' = probes + 1
            /\ \E res \in ClientOutcomes \cup {"error"} :
                 IF ReturnCode(res) = 0
                 THEN /\ okProbes' = okProbes \cup {"test"}
                      /\ out' = out \cup {"conn_ok"}
                      /\ readiness' = "QUERY_READY"
                      /\ pc' = Y_main_next("test")
                      /\ UNCHANGED <<i, sleeps>>
                 ELSE /\ sleeps' = IF SleepAfter(i) THEN sleeps + 1 ELSE sleeps
                      /\ i' = i + 1
                      /\ UNCHANGED <<okProbes, out, readiness, pc>>
            /\ UNCHANGED <<failedStages, exitCode>>
    /\ UNCHANGED <<stages, handle>>
    /\ UNCHANGED <<idVars, fsVars, srvVars>>
    /\ UNCHANGED <<dbVars, tarVars>>
    /\ UNCHANGED sigVars
    /\ UNCHANGED launchVars
    /\ UNCHANGED homeVars

\* setup_database: one client call with the bootstrap statements
\* A client that reaches the server runs the script; one that fails for
\* another reason than a rejected statement fails before its first statement.
Y_setup_database ==
    /\ script = "your_app" /\ pc = "setup"
    /\ stages' = Append(stages, "Applier")
    /\ \E res \in ClientOutcomes \cup {"error"} :
         LET r == IF res = "ok" THEN RunScript(Y_sql_commands, 1, catalog, db_password)
                  ELSE [catalog |-> catalog, rc |-> ReturnCode(res)]
         IN  /\ catalog' = r.catalog
             /\ IF r.rc = 0
                THEN /\ out' = out \cup {"db_created"}
                     /\ applied' = applied + 1
                     /\ pc' = Y_main_next("setup")
                     /\ UNCHANGED <<failedStages, exitCode>>
                ELSE /\ failedStages' = failedStages \cup {"Applier"}
                     /\ Exit(1)
                     /\ UNCHANGED <<out, applied>>
    /\ UNCHANGED <<i, probes, sleeps, readiness, okProbes, handle>>
    /\ UNCHANGED <<db_password, credFile>>
    /\ UNCHANGED <<idVars, fsVars, srvVars>>
    /\ UNCHANGED tarVars
    /\ UNCHANGED sigVars
    /\ UNCHANGED launchVars
    /\ UNCHANGED homeVars

\* create_helper_scripts, print_summary, "Installation completed successfully"
Y_print_summary ==
    /\ script = "your_app" /\ pc = "summary"
    /\ out' = out \cup {"success"}
    /\ pc' = Y_main_next("summary")
    /\ UNCHANGED <<i, probes, sleeps, exitCode, stages, failedStages,
                   readiness, okProbes, handle>>
    /\ UNCHANGED <<idVars, fsVars, srvVars>>
    /\ UNCHANGED <<dbVars, tarVars>>
    /\ UNCHANGED sigVars
    /\ UNCHANGED launchVars
    /\ UNCHANGED homeVars

\* the keep-alive loop: time.sleep(60), then the liveness check
Y_keep_alive ==
    /\ script = "your_app" /\ pc = "keepalive"
    /\ IF ~check_mysql_process_alive(srv)
       THEN /\ out' = out \cup {"died"}
            /\ Exit(1)
       ELSE UNCHANGED <<out, pc, exitCode>>
    /\ UNCHANGED <<i, probes, sleeps, stages, failedStages, readiness,
                   okProbes, handle>>
    /\ UNCHANGED <<idVars, fsVars, srvVars>>
    /\ UNCHANGED <<dbVars, tarVars>>
    /\ UNCHANGED sigVars
    /\ UNCHANGED launchVars
    /\ UNCHANGED homeVars

\* a shutdown that sends SIGKILL whether or not the process has exited
Y_shutdown_wait_AlwaysKill ==
    /\ script = "your_app" /\ pc = "stopping"
    /\ signals' = Append(signals, "KILL")
    /\ srv' = "exited"
    /\ out' = out \cup {"stopped"}
    /\ Exit(0)
    /\ UNCHANGED <<i, probes, sleeps, stages, failedStages, readiness,
                   okProbes, handle>>
    /\ UNCHANGED <<sock, sockEver, stale>>
    /\ UNCHANGED <<idVars, fsVars, dbVars, tarVars>>
    /\ UNCHANGED launchVars
    /\ UNCHANGED homeVars

\* the rest of the keep-alive handler: mysql_process.wait(timeout=10)
\* returns if the process has exited within the grace period; if it raises,
\* mysql_process.kill().  Then "MySQL stopped." and main returns.  SIGKILL
\* leaves the socket file behind.
Y_shutdown_wait ==
    /\ script = "your_app" /\ pc = "stopping"
    /\ IF Alive(srv)
       THEN /\ signals' = Append(signals, "KILL")
            /\ srv' = "exited"
       ELSE UNCHANGED <<signals, srv>>
    /\ out' = out \cup {"stopped"}
    /\ Exit(0)
    /\ UNCHANGED <<i, probes, sleeps, stages, failedStages, readiness,
                   okProbes, handle>>
    /\ UNCHANGED <<sock, sockEver, stale>>
    /\ UNCHANGED <<idVars, fsVars, dbVars, tarVars>>
    /\ UNCHANGED launchVars
    /\ UNCHANGED homeVars

\* KeyboardInterrupt while the statement at pc executes.  In the keep-alive
\* loop: "Shutting down MySQL..." and mysql_process.terminate(); anywhere
\* else in the try block, the wait of the keep-alive handler included:
\* "Installation interrupted by user", exit status 1.  What the interrupted
\* statement had written so far stays on disk.
Y_KeyboardInterrupt ==
    /\ script = "your_app" /\ pc # "done"
    /\ IF pc = "keepalive"
       THEN /\ out' = out \cup {"shutting_down"}
            /\ signals' = Append(signals, "TERM")
            /\ pc' = "stopping"
            /\ UNCHANGED <<exitCode, srv, sock>>
            /\ UNCHANGED <<archive, install, dataDir, bootCalls>>
       ELSE /\ out' = out \cup {"interrupted"}
            /\ Exit(1)
            /\ archive' \in (IF pc = "download" /\ archive = "absent"
                             THEN {"absent", "partial"} ELSE {archive})
            /\ install' \in (IF pc = "extract" /\ archive = "complete"
                                  /\ ~Unchecked(tarMembers)
                             THEN {install, "partial"} ELSE {install})
            /\ dataDir' \in (IF pc = "init" /\ ~Y_AlreadyInitialized(dataDir)
                             THEN PartialData(dataDir) ELSE {dataDir})
            /\ bootCalls' = IF pc = "init" /\ ~Y_AlreadyInitialized(dataDir)
                            THEN bootCalls + 1 ELSE bootCalls
            /\ UNCHANGED <<srv, sock, signals>>
    /\ UNCHANGED <<i, probes, sleeps, stages, failedStages, readiness,
                   okProbes, handle>>
    /\ \E r \in {[catalog |-> catalog, rc |-> 1]}
                 \cup (IF pc = "setup" /\ Serving
                       THEN {RunScript(Y_sql_commands, 1, catalog, db_password)}
                       ELSE {}) :
         /\ catalog' = r.catalog
         /\ applied' = IF r.rc = 0 THEN applied + 1 ELSE applied
    /\ UNCHANGED <<cnf, initOK, sockEver, stale>>
    /\ UNCHANGED <<db_password, credFile>>
    /\ UNCHANGED idVars
    /\ UNCHANGED tarVars
    /\ UNCHANGED launchVars
    /\ UNCHANGED homeVars

\* =================================================== mysql_setup.py, main()
\* main() calls its functions one after the other and checks no result
M_main_next(p) ==
    CASE p = "m_download" -> "m_init"
      [] p = "m_init"     -> "m_start"
      [] p = "m_probe"    -> "m_setup"
      [] p = "m_setup"    -> "m_restart"
      [] p = "m_rprobe"   -> "m_save"
      [] OTHER            -> "done"

\* what restart_mysql_with_auth runs again after the Applier
RestartStages == <<"Configurator", "Launcher", "Prober">>

\* the mysql client of mysql_setup.py is run without a timeout
M_ClientOutcomes == ClientOutcomes \ {"timeout"}

\* download_mysql: the directory ~/mysql is the cache key.  curl, wget and
\* tar go through run_command, which swallows their failures.
M_download_mysql ==
    /\ script = "mysql_setup" /\ pc = "m_download"
    /\ stages' = Append(stages, "Provisioner")
    /\ IF install # "absent"
       THEN /\ out' = out \cup {"already_present"}
            /\ UNCHANGED <<install, failedStages>>
       ELSE \E fetched \in BOOLEAN, extracted \in BOOLEAN :
              /\ install' = IF fetched /\ extracted THEN "installed"
                            ELSE IF fetched THEN "partial" ELSE "empty"
              /\ failedStages' = IF install' = "installed" THEN failedStages
                                 ELSE failedStages \cup {"Provisioner"}
              /\ out' = out \cup {"downloading"}
                             \cup (IF fetched THEN {"extracted"} ELSE {})
    /\ pc' = M_main_next("m_download")
    /\ UNCHANGED <<i, probes, sleeps, exitCode, readiness, okProbes, handle>>
    /\ UNCHANGED <<archive, dataDir, cnf, bootCalls, initOK>>
    /\ UNCHANGED <<idVars, srvVars>>
    /\ UNCHANGED <<dbVars, tarVars>>
    /\ UNCHANGED sigVars
    /\ UNCHANGED launchVars
    /\ UNCHANGED homeVars

\* initialize_mysql: "already initialized" is "exists and is not empty"
M_AlreadyInitialized(d) == d # {}

M_initialize_mysql ==
    /\ script = "mysql_setup" /\ pc = "m_init"
    /\ stages' = Append(stages, "Initializer")
    /\ IF M_AlreadyInitialized(dataDir)
       THEN /\ out' = out \cup {"already_initialized"}
            /\ UNCHANGED <<dataDir, bootCalls, initOK, failedStages>>
       ELSE /\ bootCalls' = bootCalls + 1
            /\ out' = out \cup {"initialized"}
            /\ \E res \in BootstrapOutcomes(dataDir, install, FALSE) :
                 IF res = "ok"
                 THEN /\ dataDir' = FullData
                      /\ initOK' = TRUE
                      /\ UNCHANGED failedStages
                 ELSE /\ dataDir' \in PartialData(dataDir)
                      /\ failedStages' = failedStages \cup {"Initializer"}
                      /\ UNCHANGED initOK
    /\ pc' = M_main_next("m_init")
    /\ UNCHANGED <<i, probes, sleeps, exitCode, readiness, okProbes, handle>>
    /\ UNCHANGED <<archive, install, cnf>>
    /\ UNCHANGED <<idVars, srvVars>>
    /\ UNCHANGED <<dbVars, tarVars>>
    /\ UNCHANGED sigVars
    /\ UNCHANGED launchVars
    /\ UNCHANGED homeVars

\* the process that "mysqld --defaults-file=... &" leaves behind: without
\* the binary the shell has nothing to start
Spawned(inst) == IF inst = "installed" THEN "starting" ELSE "exited"

\* "pkill -f mysqld" and the sleep after it: every server that was alive has
\* been sent SIGTERM; whether it is gone when the sleep ends is not checked
AfterPkill(wasAlive) == IF wasAlive THEN {TRUE, FALSE} ELSE {FALSE}

\* the servers that are still alive after the pkill and the sleep, by the
\* my.cnf content they were started from
Survivors(cnfs, left) ==
    IF left THEN {c \in SUBSET cnfs : c # {}} ELSE {{}}

\* start_mysql_server up to the polling loop: pkill, my.cnf with
\* skip-grant-tables (open may raise OSError, which ends the run with exit
\* status 1), Popen
M_start_mysql_server ==
    /\ script = "mysql_setup" /\ pc = "m_start"
    /\ stale' \in AfterPkill(stale)
    /\ staleCnfs' \in Survivors(staleCnfs, stale')
    /\ sock' \in (IF stale /\ ~stale' THEN {sock, FALSE} ELSE {sock})
    /\ UNCHANGED logRuns
    /\ \E written \in BOOLEAN :
         IF written
         THEN /\ cnf' = start_mysql_server_my_cnf
              /\ stages' = stages \o <<"Configurator", "Launcher", "Prober">>
              /\ srv' = Spawned(install)
              /\ srvCnf' = cnf'
              /\ srvOut' = "devnull"
              /\ sockEver' = sock'
              /\ readiness' = "STARTING"
              /\ i' = 0 /\ probes' = 0
              /\ pc' = "m_probe"
              /\ UNCHANGED <<exitCode, failedStages, out>>
         ELSE /\ stages' = Append(stages, "Configurator")
              /\ failedStages' = failedStages \cup {"Configurator"}
              /\ out' = out \cup {"error"}
              /\ Exit(1)
              /\ UNCHANGED <<cnf, srv, sockEver, readiness, i, probes>>
              /\ UNCHANGED <<srvCnf, srvOut>>
    /\ UNCHANGED <<sleeps, okProbes, handle>>
    /\ UNCHANGED <<archive, install, dataDir, bootCalls, initOK>>
    /\ UNCHANGED idVars
    /\ UNCHANGED <<dbVars, tarVars>>
    /\ UNCHANGED sigVars
    /\ UNCHANGED homeVars

\* start_mysql_server: "if result is not None"
M_StartProbeSucceeded(result) == result # None

\* start_mysql_server, "for i in range(40)": sleep, probe, test of the
\* result; after the loop "failed to start in time" and a normal return
M_start_mysql_server_wait ==
    /\ script = "mysql_setup" /\ pc = "m_probe"
    /\ IF i < ServerAttempts
       THEN /\ probes' = probes + 1
            /\ \E res \in M_ClientOutcomes :
                 LET result == run_command(FALSE, ReturnCode(res), ProbeStdout(res))
                 IN  IF M_StartProbeSucceeded(result)
                     THEN /\ out' = out \cup {"started_ok"}
                          /\ readiness' = "QUERY_READY"
                          /\ okProbes' = IF res = "ok" THEN okProbes \cup {"start"}
                                         ELSE okProbes
                          /\ failedStages' = IF res = "ok" THEN failedStages
                                             ELSE failedStages \cup {"Prober"}
                          /\ pc' = M_main_next("m_probe")
                          /\ UNCHANGED i
                     ELSE /\ i' = i + 1
                          /\ UNCHANGED <<out, readiness, okProbes, failedStages, pc>>
       ELSE /\ out' = out \cup {"start_failed"}
            /\ readiness' = "TIMED_OUT"
            /\ failedStages' = failedStages \cup {"Prober"}
            /\ pc' = M_main_next("m_probe")
            /\ UNCHANGED <<i, probes, okProbes>>
    /\ UNCHANGED <<sleeps, exitCode, stages, handle>>
    /\ UNCHANGED <<idVars, fsVars, srvVars>>
    /\ UNCHANGED <<dbVars, tarVars>>
    /\ UNCHANGED sigVars
    /\ UNCHANGED launchVars
    /\ UNCHANGED homeVars

\* setup_database_and_user: the client's result is not looked at
M_setup_database_and_user ==
    /\ script = "mysql_setup" /\ pc = "m_setup"
    /\ stages' = Append(stages, "Applier")
    /\ \E res \in M_ClientOutcomes :
         LET r == IF res = "ok" THEN RunScript(M_sql_commands, 1, catalog, db_password)
                  ELSE [catalog |-> catalog, rc |-> ReturnCode(res)]
         IN  /\ catalog' = r.catalog
             /\ applied' = IF r.rc = 0 THEN applied + 1 ELSE applied
             /\ failedStages' = IF r.rc = 0 THEN failedStages
                                 ELSE failedStages \cup {"Applier"}
    /\ out' = out \cup {"db_created"}
    /\ pc' = M_main_next("m_setup")
    /\ UNCHANGED <<i, probes, sleeps, exitCode, readiness, okProbes, handle>>
    /\ UNCHANGED <<db_password, credFile>>
    /\ UNCHANGED <<idVars, fsVars, srvVars>>
    /\ UNCHANGED tarVars
    /\ UNCHANGED sigVars
    /\ UNCHANGED launchVars
    /\ UNCHANGED homeVars

\* restart_mysql_with_auth up to the polling loop: pkill, my.cnf without
\* skip-grant-tables, Popen
M_restart_mysql_with_auth ==
    /\ script = "mysql_setup" /\ pc = "m_restart"
    /\ stale' \in AfterPkill(stale \/ Alive(srv))
    /\ staleCnfs' \in Survivors(staleCnfs \cup (IF Alive(srv) THEN {srvCnf} ELSE {}),
                                 stale')
    /\ sock' \in (IF (stale \/ Alive(srv)) /\ ~stale' THEN {sock, FALSE} ELSE {sock})
    /\ UNCHANGED logRuns
    /\ \E written \in BOOLEAN :
         IF written
         THEN /\ cnf' = restart_mysql_with_auth_my_cnf
              /\ stages' = stages \o RestartStages
              /\ srv' = Spawned(install)
              /\ srvCnf' = cnf'
              /\ srvOut' = "devnull"
              /\ sockEver' = sock'
              /\ readiness' = "STARTING"
              /\ i' = 0 /\ probes' = 0
              /\ pc' = "m_rprobe"
              /\ UNCHANGED <<exitCode, failedStages, out>>
         ELSE /\ stages' = Append(stages, "Configurator")
              /\ failedStages' = failedStages \cup {"Configurator"}
              /\ out' = out \cup {"error"}
              /\ srv' = IF Alive(srv) THEN "exited" ELSE srv
              /\ Exit(1)
              /\ UNCHANGED <<cnf, sockEver, readiness, i, probes>>
              /\ UNCHANGED <<srvCnf, srvOut>>
    /\ UNCHANGED <<sleeps, okProbes, handle>>
    /\ UNCHANGED <<archive, install, dataDir, bootCalls, initOK>>
    /\ UNCHANGED idVars
    /\ UNCHANGED <<dbVars, tarVars>>
    /\ UNCHANGED sigVars
    /\ UNCHANGED homeVars

\* restart_mysql_with_auth, "for i in range(30)": "if result: break", and
\* "restarted with authentication enabled" whether it broke out or not
M_restart_wait ==
    /\ script = "mysql_setup" /\ pc = "m_rprobe"
    /\ IF i < RestartAttempts
       THEN /\ probes' = probes + 1
            /\ \E res \in M_ClientOutcomes :
                 LET result == run_command(FALSE, ReturnCode(res), ProbeStdout(res))
                 IN  IF Truthy(result)
                     THEN /\ out' = out \cup {"restarted"}
                          /\ readiness' = "QUERY_READY"
                          /\ okProbes' = okProbes \cup {"restart"}
                          /\ pc' = M_main_next("m_rprobe")
                          /\ UNCHANGED i
                     ELSE /\ i' = i + 1
                          /\ UNCHANGED <<out, readiness, okProbes, pc>>
            /\ UNCHANGED failedStages
       ELSE /\ out' = out \cup {"restarted"}
            /\ readiness' = "TIMED_OUT"
            /\ failedStages' = failedStages \cup {"Prober"}
            /\ pc' = M_main_next("m_rprobe")
            /\ UNCHANGED <<i, probes, okProbes>>
    /\ UNCHANGED <<sleeps, exitCode, stages, handle>>
    /\ UNCHANGED <<idVars, fsVars, srvVars>>
    /\ UNCHANGED <<dbVars, tarVars>>
    /\ UNCHANGED sigVars
    /\ UNCHANGED launchVars
    /\ UNCHANGED homeVars

\* get_system_info, save_credentials, "INSTALLATION COMPLETED SUCCESSFULLY",
\* and main returns: exit status 0
M_save_credentials ==
    /\ script = "mysql_setup" /\ pc = "m_save"
    /\ credFile' = db_password
    /\ out' = out \cup {"success"}
    /\ Exit(0)
    /\ UNCHANGED <<i, probes, sleeps, stages, failedStages, readiness,
                   okProbes, handle>>
    /\ UNCHANGED <<db_password, catalog, applied>>
    /\ UNCHANGED <<idVars, fsVars, srvVars>>
    /\ UNCHANGED tarVars
    /\ UNCHANGED sigVars
    /\ UNCHANGED launchVars
    /\ UNCHANGED homeVars

\* KeyboardInterrupt while the statement at pc executes: "Installation
\* cancelled.", sys.exit(0)
M_KeyboardInterrupt ==
    /\ script = "mysql_setup" /\ pc # "done"
    /\ out' = out \cup {"cancelled"}
    /\ Exit(0)
    /\ install' \in (IF pc = "m_download" /\ install = "absent"
                     THEN {"absent", "empty", "partial"} ELSE {install})
    /\ dataDir' \in (IF pc = "m_init" /\ ~M_AlreadyInitialized(dataDir)
                     THEN PartialData(dataDir) ELSE {dataDir})
    /\ bootCalls' = IF pc = "m_init" /\ ~M_AlreadyInitialized(dataDir)
                    THEN bootCalls + 1 ELSE bootCalls
    /\ UNCHANGED <<i, probes, sleeps, stages, failedStages, readiness,
                   okProbes, handle>>
    /\ \E r \in {[catalog |-> catalog, rc |-> 1]}
                 \cup (IF pc = "m_setup" /\ Serving
                       THEN {RunScript(M_sql_commands, 1, catalog, db_password)}
                       ELSE {}) :
         /\ catalog' = r.catalog
         /\ applied' = IF r.rc = 0 THEN applied + 1 ELSE applied
    /\ credFile' \in (IF pc = "m_save" THEN {credFile, db_password} ELSE {credFile})
    /\ UNCHANGED <<archive, cnf, initOK>>
    /\ UNCHANGED db_password
    /\ UNCHANGED <<idVars, srvVars>>
    /\ UNCHANGED tarVars
    /\ UNCHANGED sigVars
    /\ UNCHANGED launchVars
    /\ UNCHANGED homeVars

\* ======================================================= the operator reruns
\* the script is started again on the same host: the files stay, a server
\* that is still alive becomes an orphan of the earlier run
Rerun ==
    /\ pc = "done" /\ run < MaxRuns
    /\ run' = run + 1
    /\ pc' = IF script = "your_app" THEN "download" ELSE "m_download"
    /\ i' = 0 /\ probes' = 0 /\ sleeps' = 0
    /\ exitCode' = -1
    /\ out' = {}
    /\ stages' = <<>>
    /\ failedStages' = {}
    /\ readiness' = "IDLE"
    /\ okProbes' = {}
    /\ handle' = FALSE
    /\ stale' = (stale \/ Alive(srv))
    /\ staleCnfs' = staleCnfs \cup (IF Alive(srv) THEN {srvCnf} ELSE {})
    /\ srv' = "none"
    /\ srvCnf' = NoFile /\ srvOut' = "none"
    /\ mysql_home' = NoDir
    /\ UNCHANGED logRuns
    /\ sockEver' = sock
    /\ db_password' \in (IF script = "your_app" THEN {DB_PASSWORD} ELSE Passwords)
    /\ signals' = <<>>
    /\ UNCHANGED <<script, sock, fsVars, credFile, catalog, applied, tarVars>>

Next ==
    \/ SrvCreateSocket \/ SrvAccept \/ SrvExit \/ StaleStep
    \/ Y_download_mysql \/ Y_extract_mysql \/ Y_install_libaio
    \/ Y_initialize_database \/ Y_create_config_file
    \/ Y_start_mysql \/ Y_wait_check_alive \/ Y_wait_check_socket \/ Y_settle
    \/ Y_test_connection \/ Y_setup_database \/ Y_print_summary
    \/ Y_keep_alive \/ Y_KeyboardInterrupt \/ Y_shutdown_wait
    \/ M_download_mysql \/ M_initialize_mysql
    \/ M_start_mysql_server \/ M_start_mysql_server_wait
    \/ M_setup_database_and_user
    \/ M_restart_mysql_with_auth \/ M_restart_wait
    \/ M_save_credentials \/ M_KeyboardInterrupt
    \/ Rerun

Spec == Init /\ [][Next]_vars

\* the statements of the script that is running.  Each of them returns: the
\* sleeps are finite, subprocess.run in your_app.py carries a timeout, and
\* the script is a single thread that nothing suspends.  The server, the
\* orphan, the operator's interrupt and the operator's next run are under no
\* such obligation.
Controller ==
    \/ Y_download_mysql \/ Y_extract_mysql \/ Y_install_libaio
    \/ Y_initialize_database \/ Y_create_config_file
    \/ Y_start_mysql \/ Y_wait_check_alive \/ Y_wait_check_socket \/ Y_settle
    \/ Y_test_connection \/ Y_setup_database \/ Y_print_summary
    \/ Y_keep_alive \/ Y_shutdown_wait
    \/ M_download_mysql \/ M_initialize_mysql
    \/ M_start_mysql_server \/ M_start_mysql_server_wait
    \/ M_setup_database_and_user
    \/ M_restart_mysql_with_auth \/ M_restart_wait
    \/ M_save_credentials

FairSpec == Spec /\ WF_vars(Controller)

\* the directories extract_mysql can return
Homes == {p.name : p \in UNION {iterdir(a) : a \in Archives}}

\* what my.cnf can hold
Contents ==
    {NoFile, start_mysql_server_my_cnf, restart_mysql_with_auth_my_cnf}
        \cup {create_config_file(h) : h \in Homes}

TypeOK ==
    /\ script \in {"your_app", "mysql_setup"}
    /\ run \in 1..MaxRuns
    /\ i \in 0..StartAttempts /\ probes \in 0..ServerAttempts /\ sleeps \in 0..TestAttempts
    /\ exitCode \in {-1, 0, 1}
    /\ readiness \in {"IDLE", "STARTING", "SOCKET_READY", "QUERY_READY",
                      "FAILED", "TIMED_OUT"}
    /\ archive \in {"absent", "partial", "complete"}
    /\ install \in {"absent", "empty", "partial", "installed"}
    /\ dataDir \subseteq FullData
    /\ cnf \in Contents
    /\ srv \in {"none", "starting", "socket", "ready", "exited"}
    /\ sock \in BOOLEAN /\ sockEver \in BOOLEAN /\ stale \in BOOLEAN
    /\ handle \in BOOLEAN /\ initOK \in BOOLEAN
    /\ bootCalls \in 0..MaxRuns
    /\ tarMembers \in Archives \cup {<<>>}
    /\ (archive = "complete") = (tarMembers # <<>>)
    /\ outside \in BOOLEAN
    /\ (pc = "done") = (exitCode # -1)
    /\ signals \in {<<>>, <<"TERM">>, <<"TERM", "KILL">>}
    /\ srvCnf \in Contents
    /\ staleCnfs \subseteq Contents \ {NoFile}
    /\ stale = (staleCnfs # {})
    /\ (srv = "none") = (srvCnf = NoFile)
    /\ srvOut \in {"none", "append", "devnull"}
    /\ logRuns \subseteq 1..MaxRuns
    /\ mysql_home \in {NoDir} \cup Homes
    /\ db_password \in Passwords \cup {DB_PASSWORD}
    /\ credFile \in Passwords \cup {"none"}
    /\ catalog.dbs \subseteq {DB_NAME}
    /\ catalog.grants \subseteq Accounts \X {DB_NAME, "*.*"}
    /\ applied \in 0..MaxRuns

\* ================================================================== claims
Canon == <<"Provisioner", "Initializer", "Configurator", "Launcher",
           "Prober", "Applier">>

\* the readiness wait that gates the Applier is the one of the first server
\* start of the run
FirstStart == Len(stages) <= Len(Canon)

\* C1 as stated: in every run of either script the stages started so far are
\* a prefix of Provisioner, Initializer, Configurator, Launcher, Prober,
\* Applier, so each stage runs at most once and in that order.
C1_StagesOnceInOrder == IsPrefix(stages, Canon)

\* C1 amended: your_app.py starts the stages in the canonical order, each at
\* most once; mysql_setup.py does the same and then, after the Applier,
\* starts Configurator, Launcher and Prober a second time
\* (restart_mysql_with_auth).  A stage is appended only when the one before
\* it has returned, and nothing restarts the pipeline inside a run.
C1_StageOrder ==
    IsPrefix(stages, IF script = "your_app" THEN Canon ELSE Canon \o RestartStages)

C1_Witness == pc = "done" /\ exitCode = 0 /\ stages = Canon \o RestartStages

\* C2: fail-fast.  A stage that has failed is the last stage started in its
\* run (no later stage was executed), no success message is printed after a
\* failure and a run that was not interrupted ends with a non-zero exit
\* status.
C2_FailFast ==
    /\ \A k \in 1..Len(stages) : stages[k] \in failedStages => k = Len(stages)
    /\ failedStages # {} =>
        /\ "success" \notin out
        /\ (pc = "done" /\ out \cap {"interrupted", "cancelled"} = {} => exitCode = 1)

\* C2 restricted to your_app.py, where it holds
C2_FailFast_your_app == script = "your_app" => C2_FailFast

\* the server process of the first start has exited and the socket file has
\* not existed since it was spawned
ExitedBeforeSocket == srv = "exited" /\ ~sockEver /\ FirstStart

\* C3: if the server process exits before the socket file appears, the
\* readiness wait never returns a handle, readiness is never reported, the
\* connection test never succeeds and the Applier is never invoked.
C3_ExitBeforeSocket ==
    ExitedBeforeSocket =>
        /\ ~handle
        /\ out \cap {"ready", "started_ok", "conn_ok"} = {}
        /\ probes = 0
        /\ "Applier" \notin Range(stages)

\* C3 restricted to your_app.py, where it holds; and a wait that found the
\* process dead ends with the "process died" diagnostic and exit status 1
C3_ExitBeforeSocket_your_app ==
    script = "your_app" =>
        /\ C3_ExitBeforeSocket
        /\ (readiness = "FAILED" /\ "conn_failed" \notin out
                => "died" \in out /\ exitCode = 1 /\ ~handle)

\* C4: the prober reports the server ready only if a probe command of that
\* prober call exited with status 0.
C4_ReadyOnlyAfterProbe ==
    /\ "started_ok" \in out => "start" \in okProbes
    /\ "conn_ok" \in out => "test" \in okProbes

\* C4 restricted to your_app.py, where it holds
C4_ReadyOnlyAfterProbe_your_app == script = "your_app" => C4_ReadyOnlyAfterProbe

\* C5: test_connection never makes more than 8 probes nor sleeps more than
\* 7 times; while every probe so far has failed it has slept once per
\* failed probe except after the 8th; it reports failure only after exactly
\* 8 probes and 7 sleeps, and then the run ends with status 1 without the
\* Applier.
C5_ExactlyEightProbes ==
    script = "your_app" =>
        /\ probes <= TestAttempts /\ sleeps <= TestAttempts - 1
        /\ (pc = "test" => probes = i /\ sleeps = Min(i, TestAttempts - 1))
        /\ ("conn_failed" \in out =>
                /\ probes = TestAttempts /\ sleeps = TestAttempts - 1
                /\ "test" \notin okProbes
                /\ "Applier" \notin Range(stages)
                /\ pc = "done" /\ exitCode = 1)

C5_Witness == script = "your_app" /\ "conn_failed" \in out /\ probes = 8 /\ sleeps = 7

\* the attempt bound of the readiness wait of the first start
WaitBound == IF script = "your_app" THEN StartAttempts ELSE ServerAttempts

\* the readiness wait of the first start has run to its end
WaitOver ==
    \/ /\ script = "your_app" /\ "Prober" \in Range(stages)
       /\ pc \notin {"wait_alive", "wait_sock"} /\ "interrupted" \notin out
    \/ script = "mysql_setup" /\ pc \in {"m_setup", "m_restart"}

\* C6: a readiness wait during which the socket file never existed and the
\* process never exited ends timed out, after exactly the attempt bound, and
\* the run then ends with a non-zero exit status; no wait polls more often
\* than its bound.
C6_TimeoutAtBound ==
    /\ FirstStart => i <= WaitBound
    /\ (WaitOver /\ ~sockEver /\ Alive(srv)) =>
            /\ readiness = "TIMED_OUT" /\ i = WaitBound
            /\ pc = "done" /\ exitCode = 1

\* C6 restricted to your_app.py, where it holds
C6_TimeoutAtBound_your_app ==
    script = "your_app" =>
        /\ C6_TimeoutAtBound
        /\ (readiness = "TIMED_OUT" =>
                i = StartAttempts /\ pc = "done" /\ exitCode = 1 /\ ~handle)

\* C7: no functional query is issued before the socket file has been
\* observed, and the Applier starts only after the socket file was observed
\* and a functional query succeeded.
C7_TwoPhase ==
    /\ probes > 0 => "socket_seen" \in out
    /\ "Applier" \in Range(stages) => "socket_seen" \in out /\ okProbes # {}

\* C7 restricted to your_app.py, where it holds
C7_TwoPhase_your_app == script = "your_app" => C7_TwoPhase

\* forward steps of the readiness state; QUERY_READY, FAILED and TIMED_OUT
\* are left by no step
Rank(r) ==
    CASE r = "IDLE"         -> 0
      [] r = "STARTING"     -> 1
      [] r = "SOCKET_READY" -> 2
      [] r = "QUERY_READY"  -> 3
      [] OTHER              -> 4

Forward(a, b) ==
    \/ a = b
    \/ a \in {"IDLE", "STARTING", "SOCKET_READY"} /\ Rank(a) < Rank(b)

\* C8 as stated: within a run the readiness state only moves forward and
\* FAILED and TIMED_OUT are never left.
C8_OnlyForward == [][run' = run => Forward(readiness, readiness')]_vars

\* C8 amended: within a run the readiness state only moves forward and
\* FAILED and TIMED_OUT are never left, except that restart_mysql_with_auth
\* of mysql_setup.py starts the server again after the Applier and takes the
\* state from QUERY_READY back to STARTING, once.
C8_ForwardPerStart ==
    [][run' = run =>
          \/ Forward(readiness, readiness')
          \/ /\ script = "mysql_setup" /\ pc = "m_restart" /\ pc' = "m_rprobe"
             /\ readiness = "QUERY_READY" /\ readiness' = "STARTING"]_vars

C8_Witness ==
    /\ script = "mysql_setup" /\ pc = "m_save"
    /\ "started_ok" \in out /\ readiness = "TIMED_OUT"

\* C9: the process exits with status 0 only if no stage failed and
\* Provisioner, Initializer, Launcher, Prober and Applier all ran.
C9_ExitZeroOnlyOnSuccess ==
    (pc = "done" /\ exitCode = 0) =>
        /\ failedStages = {}
        /\ {"Provisioner", "Initializer", "Launcher", "Prober", "Applier"}
               \subseteq Range(stages)

\* C9 restricted to your_app.py, where it holds
C9_ExitZeroOnlyOnSuccess_your_app == script = "your_app" => C9_ExitZeroOnlyOnSuccess

\* C10: once an initialization of the data directory has succeeded, no step
\* of this or a later run invokes the bootstrap command again or changes the
\* content of the data directory.
C10_InitializerIdempotent ==
    [][initOK => bootCalls' = bootCalls /\ dataDir' = dataDir]_vars

C10_Witness ==
    /\ initOK /\ run > 1 /\ "already_initialized" \in out
    /\ "Initializer" \in Range(stages) /\ bootCalls = 1

\* C11: a data directory that exists and is not empty is treated as already
\* initialized whatever it contains: no step invokes the bootstrap command
\* while the data directory has any entry.
C11_NonEmptyNeverBootstrapped ==
    [][dataDir # {} => bootCalls' = bootCalls]_vars

\* C11 restricted to mysql_setup.py, where it holds
C11_NonEmptyNeverBootstrapped_mysql_setup ==
    [][script = "mysql_setup" /\ dataDir # {} => bootCalls' = bootCalls]_vars

\* C12: when the bootstrap command of the Initializer exited non-zero or
\* timed out, the Initializer does not report the data directory as
\* initialized and the Launcher is not started in that run.
C12_InitializationError ==
    "Initializer" \in failedStages =>
        /\ "initialized" \notin out
        /\ "Launcher" \notin Range(stages)

\* C12 restricted to your_app.py, where it holds and the run ends with exit
\* status 1
C12_InitializationError_your_app ==
    script = "your_app" /\ "Initializer" \in failedStages =>
        /\ "initialized" \notin out /\ "Launcher" \notin Range(stages)
        /\ pc = "done" /\ exitCode = 1

\* the bootstrap script the Applier of the running script sends
SqlOf(sc) == IF sc = "your_app" THEN Y_sql_commands ELSE M_sql_commands

\* the Applier has been called in this run
ApplierRan == "Applier" \in Range(stages)

\* C13: credentials, once persisted, are never replaced by different ones,
\* and at the end of every run the application password in the credentials
\* artifact is the password with which the application user exists on the
\* server.
C13_CredentialsStable ==
    /\ [][credFile # "none" => credFile' = credFile]_vars
    /\ [](pc = "done" /\ credFile # "none" =>
            \A a \in AppAccounts :
                catalog.users[a] # "absent" => catalog.users[a] = credFile)

\* C14: the application accounts hold privileges on the application
\* database only, never ON *.*.
C14_LeastPrivilege ==
    \A g \in catalog.grants : g[1] \in AppAccounts => g[2] = DB_NAME

\* the statements of a bootstrap script grant the application accounts
\* nothing but the application database
GrantsOnlyDatabase(sql) ==
    \A k \in 1..Len(sql) :
        sql[k].op = "GRANT" /\ sql[k].user \in AppAccounts => sql[k].on = DB_NAME

\* C14 for your_app.py and app.py, where it holds
C14_LeastPrivilege_your_app ==
    /\ GrantsOnlyDatabase(Y_sql_commands) /\ GrantsOnlyDatabase(A_sql)
    /\ script = "your_app" => C14_LeastPrivilege

\* the privilege-changing statements of a script, in order
Changing(sql) == SelectSeq(sql, LAMBDA st : st.op # "QUERY")

\* the four statements of the specified bootstrap
Specified ==
    << CreateDatabase(TRUE), CreateUser("appuser@%", "db_password", TRUE),
       Grant("appuser@%", DB_NAME), FlushPrivileges >>

\* C15 as stated: the Applier issues create database if absent, create
\* application user if absent at host '%', grant all on that database to the
\* user, flush privileges, in this order; no grant comes before the two
\* creation statements and flush is the last privilege-changing statement.
C15_StatementOrder ==
    /\ Changing(A_sql) = Specified
    /\ ApplierRan => Changing(SqlOf(script)) = Specified

\* position of the first occurrence of a statement in a script, 0 if none
First(sql, st) ==
    IF \E k \in 1..Len(sql) : sql[k] = st
    THEN CHOOSE k \in 1..Len(sql) : sql[k] = st /\ \A j \in 1..(k - 1) : sql[j] # st
    ELSE 0

\* the specified statements occur in their order, every grant to an
\* application account comes after the creation of the database and of the
\* account, no grant is addressed to an account the script has not created
\* before, and the last privilege-changing statement is the flush
RelativeOrder(sql) ==
    /\ 0 < First(sql, Specified[1])
    /\ First(sql, Specified[1]) < First(sql, Specified[2])
    /\ First(sql, Specified[2]) < First(sql, Specified[3])
    /\ \A k \in 1..Len(sql) :
         sql[k].op = "GRANT" =>
            /\ \E j \in 1..(k - 1) :
                  sql[j].op = "CREATE USER" /\ sql[j].user = sql[k].user
            /\ sql[k].user \in AppAccounts => First(sql, Specified[1]) < k
    /\ Changing(sql)[Len(Changing(sql))] = FlushPrivileges
    /\ \A k \in 1..(Len(Changing(sql)) - 1) :
         Changing(sql)[k] = FlushPrivileges => k = 1

A_sql_Ordered == RelativeOrder(A_sql)

Y_sql_commands_Ordered == RelativeOrder(Y_sql_commands)

M_sql_commands_Ordered == RelativeOrder(M_sql_commands)

\* C15 amended: in app.py and in the script being run the specified
\* statements are issued in their order, possibly with other statements
\* around them (mysql_setup.py: a leading flush, the root accounts, the
\* 'localhost' application account and a grant ON *.*); grants to the
\* application user follow the creation of the database and of the user, and
\* flush is the last privilege-changing statement.
C15_RelativeOrder ==
    /\ A_sql_Ordered
    /\ ApplierRan => IF script = "your_app" THEN Y_sql_commands_Ordered
                     ELSE M_sql_commands_Ordered

C15_Witness ==
    /\ script = "mysql_setup" /\ ApplierRan /\ applied = 1
    /\ \A a \in Accounts : catalog.users[a] # "absent"
    /\ <<"appuser@%", DB_NAME>> \in catalog.grants

\* the databases, the accounts and the grants of two catalogs are the same
SameObjects(c, d) ==
    /\ c.dbs = d.dbs
    /\ {a \in Accounts : c.users[a] # "absent"} = {a \in Accounts : d.users[a] # "absent"}
    /\ c.grants = d.grants

\* C16: once an Applier call has executed all of its statements, the
\* bootstrap script run again is rejected at no statement, and no step
\* changes the set of databases, the set of accounts or the grants.
C16_ApplierIdempotent ==
    /\ [](applied > 0 =>
            RunScript(SqlOf(script), 1, catalog, db_password).rc = 0)
    /\ [][applied > 0 => SameObjects(catalog, catalog')]_vars

C16_Witness ==
    /\ applied = 2 /\ run = 2 /\ ApplierRan /\ "Applier" \notin failedStages
    /\ DB_NAME \in catalog.dbs /\ catalog.users["appuser@%"] # "absent"

\* C17: when the client failed on the bootstrap statements, the Applier does
\* not report the database and the user as created and the run ends there,
\* with a non-zero exit status.
C17_BootstrapError ==
    "Applier" \in failedStages =>
        /\ "db_created" \notin out
        /\ pc = "done" /\ exitCode = 1

\* C17 restricted to your_app.py, where it holds
C17_BootstrapError_your_app == script = "your_app" => C17_BootstrapError

\* C18: extract_mysql writes nothing outside the install root, and when a
\* member of the archive resolves outside the install root (by path
\* components, ".." resolved) extraction fails and has written nothing, so
\* the install root is still as the module created it.
C18_PathSafety ==
    /\ ~outside
    /\ script = "your_app" /\ HasUnsafe(tarMembers) =>
          /\ install = "empty"
          /\ out \cap {"extracted", "success"} = {}
          /\ pc \in {"download", "extract", "done"}

\* C18 for the member names extract_mysql does catch: a name that leaves the
\* install root through ".." or is absolute, and does not come back to a
\* path whose text begins with the text of the install root
C18_PathSafety_Caught ==
    script = "your_app" /\ Unchecked(tarMembers) =>
        /\ ~outside /\ install = "empty" /\ "extracted" \notin out
        /\ pc \in {"download", "extract", "done"}

\* C19: while an installation exists at the install root, no step downloads
\* anything, extracts over it or changes it in another way.
C19_CacheHit ==
    [][install = "installed" =>
          /\ install' = install
          /\ out' \cap {"downloading", "extracted"} \subseteq out]_vars

\* C19 restricted to mysql_setup.py, where it holds
C19_CacheHit_mysql_setup ==
    [][script = "mysql_setup" /\ install = "installed" =>
          /\ install' = install
          /\ out' \cap {"downloading", "extracted"} \subseteq out]_vars

\* C20: no server process spawned by the controller is running while a
\* server process of an earlier run is still alive; what the Launcher does
\* when there is no such process is the same as without the check.
C20_NoTwoServers == ~(stale /\ Alive(srv))

\* C20, second part only: a run that finds no process of an earlier run
\* does not fail on that account in the Launcher
C20_AbsenceIsNoError ==
    [][~stale /\ srv = "none" /\ pc \in {"launch", "m_start"}
          /\ pc' \in {"wait_alive", "m_probe"} => failedStages' = failedStages]_vars

\* the run has ended on an interrupt of the operator
Interrupted == pc = "done" /\ out \cap {"interrupted", "cancelled", "stopped"} # {}

\* C21: when the controller has exited on an interrupt, no server process
\* spawned by that run is still running.
C21_NoOrphanOnInterrupt == Interrupted => ~Alive(srv)

\* C21 for an interrupt in the keep-alive loop of your_app.py, the one place
\* where it holds
C21_NoOrphanOnInterrupt_keepalive == "stopped" \in out /\ pc = "done" => ~Alive(srv)

\* C26: every decision that takes the server to be alive is taken on the
\* process status of that moment: the polling loop goes on to the socket
\* check, and the settle check returns the handle, only while the process
\* has not exited; a run that reported the server ready and found no death
\* holds a handle obtained while the process was alive.
C26_LivenessNotCached ==
    [][script = "your_app" =>
          /\ (pc = "wait_alive" /\ pc' = "wait_sock" => srv # "exited")
          /\ (pc = "settle" /\ pc' = "test" => srv # "exited")
          /\ (pc = "keepalive" /\ srv = "exited" /\ pc' = "done" /\ exitCode' = 1
                 => "died" \in out')]_vars

C26_Witness ==
    /\ script = "your_app" /\ srv = "exited" /\ pc = "done" /\ exitCode = 1
    /\ "success" \in out /\ "died" \in out

\* C27: if the server process has exited when the settle delay is over,
\* start_mysql returns no handle: the run ends with exit status 1 and
\* neither test_connection nor setup_database is invoked.
C27_ExitDuringSettle ==
    [][script = "your_app" /\ pc = "settle" /\ srv = "exited" /\ pc' # pc =>
          /\ pc' = "done" /\ exitCode' = 1 /\ ~handle'
          /\ probes' = 0 /\ "Applier" \notin Range(stages')]_vars

C27_Witness ==
    /\ script = "your_app" /\ pc = "done" /\ exitCode = 1
    /\ "socket_seen" \in out /\ "died" \in out /\ "ready" \notin out
    /\ ~handle /\ probes = 0

\* C30: the Provisioner reports the archive (your_app.py) or the
\* installation (mysql_setup.py) as already present only when an earlier
\* run completed the download, and for mysql_setup.py the extraction.
C30_NoSkipAfterPartial ==
    "already_present" \in out =>
        IF script = "your_app" THEN archive = "complete" ELSE install = "installed"

\* the controller is inside start_mysql's polling loop, test_connection,
\* start_mysql_server's loop, restart_mysql_with_auth's loop
InStartWait   == pc \in {"wait_alive", "wait_sock", "settle"}
InTest        == pc = "test"
InServerWait  == pc = "m_probe"
InRestartWait == pc = "m_rprobe"

C28_KeepAlive ==
    /\ [][script = "your_app" /\ pc = "keepalive" /\ pc' # "keepalive" =>
             \/ srv = "exited" /\ pc' = "done" /\ exitCode' = 1 /\ "died" \in out'
             \/ pc' = "stopping" /\ signals' = <<"TERM">> /\ srv' = srv]_vars
    /\ [][signals' # signals /\ signals' # <<>> =>
             \/ signals' = <<"TERM">> /\ signals = <<>>
             \/ signals' = <<"TERM", "KILL">> /\ signals = <<"TERM">>
                   /\ pc = "stopping" /\ Alive(srv)]_vars
    /\ [](pc = "done" /\ "stopped" \in out => ~Alive(srv))
    /\ (script = "your_app" /\ pc = "keepalive" /\ srv = "exited"
           ~> \/ pc = "done" /\ exitCode = 1 /\ "died" \in out
              \/ "shutting_down" \in out)

\* the server ignored SIGTERM for the whole grace period and was killed
C28_Witness == pc = "done" /\ "stopped" \in out /\ signals = <<"TERM", "KILL">>

\* C24: the output of every server a run spawns goes to the log files,
\* opened for appending, never to a null sink, and what the log files held
\* before the spawn is kept.
C24_LogsAppended ==
    /\ [](srv # "none" => srvOut = "append")
    /\ [][logRuns \subseteq logRuns']_vars

\* C24 for your_app.py, where it holds
C24_LogsAppended_your_app ==
    /\ [](script = "your_app" /\ srv # "none" => srvOut = "append" /\ run \in logRuns)
    /\ [][logRuns \subseteq logRuns']_vars

\* C29: when main of mysql_setup.py has reported success, my.cnf does not
\* contain skip-grant-tables and no server started with skip-grant-tables is
\* running: neither the server of the run nor a survivor of the pkill.
C29_NoSkipGrantAfterSuccess ==
    script = "mysql_setup" /\ pc = "done" /\ "success" \in out =>
        /\ ~SkipGrantTables(cnf)
        /\ Alive(srv) => ~SkipGrantTables(srvCnf)
        /\ \A c \in staleCnfs : ~SkipGrantTables(c)

\* C29 without the survivors of the pkill: the file and the server that
\* restart_mysql_with_auth started
C29_NoSkipGrantAfterSuccess_restarted ==
    script = "mysql_setup" /\ pc = "done" /\ "success" \in out =>
        /\ cnf = restart_mysql_with_auth_my_cnf
        /\ Alive(srv) => srvCnf = restart_mysql_with_auth_my_cnf

\* extract_mysql has gone through its resolution in this run
Resolved == script = "your_app" /\ (mysql_home # NoDir \/ "no_directory" \in out)

\* the directory with this name
Named(dirs, name) == {p \in dirs : p.name = name}

C31_NoSkipAfterFailedInit == "already_initialized" \in out => initOK

\* what the branch does rest on: the marker DATA_DIR/mysql in your_app.py, a
\* non-empty data directory in mysql_setup.py
C31_NoSkipAfterFailedInit_content ==
    "already_initialized" \in out =>
        IF script = "your_app" THEN "mysql" \in dataDir ELSE dataDir # {}
====
